---- MODULE Spec2Model ----
(***************************************************************************)
(* Model of the n-d world grid (grid_demo/world.py), the world manager     *)
(* (pathfinder/worldmanager.py) and the projection (grid_demo/             *)
(* projection.py).                                                         *)
(*                                                                         *)
(* An ndarray is a record [shape, cells]: shape is the sequence of extents *)
(* in STORAGE axis order (storage axis k of the source is position k+1),   *)
(* cells maps every storage index tuple (0-based coordinates) to a value.  *)
(* Arrays live in a heap of buffers so that two references to the same     *)
(* buffer (a view) and two buffers with equal contents (a copy) differ.    *)
(*                                                                         *)
(* Index expressions grid[coords], with coords the list that np.meshgrid   *)
(* returns, are read as the tuple of index arrays, as numpy did when the   *)
(* program was written.                                                    *)
(***************************************************************************)
EXTENDS Integers, Sequences, FiniteSets, TLC

\* ---- bounds -------------------------------------------------------------
MaxDim == 2
MaxExtent == 2
MaxCells == 4
MaxBlockCells == 2
MaxSnapCells == 2
ProjMaxDim == 3
ProjMaxCells == 8
MaxSolid == 2

\* ---- Material -----------------------------------------------------------
AIR == 0
WALL == 1
Material == {AIR, WALL}

\* ---- numpy helpers ------------------------------------------------------
RECURSIVE Prod(_)
Prod(s) == IF s = <<>> THEN 1 ELSE Head(s) * Prod(Tail(s))

SeqMax(s) == IF s = <<>> THEN 0
             ELSE CHOOSE m \in {s[i] : i \in DOMAIN s} : \A i \in DOMAIN s : s[i] <= m

\* np.ndindex(*shape): every index tuple of an array of that shape
Idx(shape) == {x \in [1..Len(shape) -> 0..(SeqMax(shape) - 1)] :
                 \A i \in 1..Len(shape) : x[i] < shape[i]}

\* np.zeros(shape)
Zeros(shape) == [shape |-> shape, cells |-> [x \in Idx(shape) |-> AIR]]

\* np.array(a): a new array with the same shape and values
CopyArray(a) == [shape |-> a.shape, cells |-> [x \in DOMAIN a.cells |-> a.cells[x]]]

NoArray == [shape |-> <<>>, cells |-> <<>>]

\* starmap(np.arange, zip(p, q)) + np.meshgrid(indexing="ij"): the index
\* tuples x with p[i] <= x[i] < qe[i], and the shape of the indexing result
InRegion(x, p, qe) == \A i \in 1..Len(p) : p[i] <= x[i] /\ x[i] < qe[i]

RegionShape(p, qe) == [i \in 1..Len(p) |-> IF qe[i] > p[i] THEN qe[i] - p[i] ELSE 0]

\* some index of the region lies outside an array of this shape
OutOfBounds(shape, p, qe) ==
    /\ \A i \in 1..Len(p) : p[i] < qe[i]
    /\ \E i \in 1..Len(p) : qe[i] > shape[i]

\* value broadcasting of an assignment a[coords] = value
Broadcastable(bshape, rshape) ==
    /\ Len(bshape) <= Len(rshape)
    /\ \A j \in 1..Len(bshape) :
         LET i == Len(rshape) - Len(bshape) + j
         IN  bshape[j] = rshape[i] \/ bshape[j] = 1

BroadcastIndex(bshape, o) ==
    [j \in 1..Len(bshape) |->
        IF bshape[j] = 1 THEN 0 ELSE o[Len(o) - Len(bshape) + j]]

\* a[coords]: a new array holding the cells of the region
IndexGet(a, p, qe) ==
    IF OutOfBounds(a.shape, p, qe)
    THEN [err |-> "IndexError", out |-> NoArray]
    ELSE LET rs == RegionShape(p, qe)
         IN  [err |-> "none",
              out |-> [shape |-> rs,
                       cells |-> [o \in Idx(rs) |->
                                    a.cells[[i \in 1..Len(p) |-> p[i] + o[i]]]]]]

\* a[coords] = material
IndexSetScalar(a, p, qe, material) ==
    IF OutOfBounds(a.shape, p, qe)
    THEN [err |-> "IndexError", out |-> a]
    ELSE [err |-> "none",
          out |-> [shape |-> a.shape,
                   cells |-> [x \in DOMAIN a.cells |->
                                IF InRegion(x, p, qe) THEN material ELSE a.cells[x]]]]

\* a[coords] = block
IndexSetBlock(a, p, qe, block) ==
    LET rs == RegionShape(p, qe)
    IN  IF ~Broadcastable(block.shape, rs)
        THEN [err |-> "ValueError", out |-> a]
        ELSE IF OutOfBounds(a.shape, p, qe)
        THEN [err |-> "IndexError", out |-> a]
        ELSE [err |-> "none",
              out |-> [shape |-> a.shape,
                       cells |-> [x \in DOMAIN a.cells |->
                                    IF InRegion(x, p, qe)
                                    THEN block.cells[BroadcastIndex(block.shape,
                                             [i \in 1..Len(p) |-> x[i] - p[i]])]
                                    ELSE a.cells[x]]]]

\* ---- state ---------------------------------------------------------------
VARIABLES
    heap,              \* buffer id -> ndarray (NoArray: free)
    world,             \* WorldManager.world: the WorldModelND object it owns
    current_material,  \* WorldManager.current_material
    snap,              \* buffer a caller holds from all()/query(), 0 if none
    snapTaken,         \* the contents snap had when it was returned
    file,              \* what save() wrote to the caller's handle, NoFile if nothing
    pc,                \* the caller: "idle" between calls, "returned" after one
    last               \* the last call: its arguments, the state before, the outcome

vars == <<heap, world, current_material, snap, snapTaken, file, pc, last>>

BufIds == 1..3

NoWorld == [grid_max |-> <<>>, dimension |-> 0, grid |-> 0]

NoFile == [shape |-> <<>>, data |-> <<>>]

\* a buffer id that holds no array
Fresh(h) == CHOOSE b \in BufIds : h[b] = NoArray /\ \A c \in BufIds : h[c] = NoArray => b <= c

\* unreferenced buffers are reclaimed
Collect(h, live) == [b \in BufIds |-> IF b \in live THEN h[b] ELSE NoArray]

\* ---- WorldModelND -------------------------------------------------------
\* the constructor with the maximum coordinates set to the shape itself
WorldModelND_gmax_shape(h, id, shape) ==
    IF \E i \in DOMAIN shape : shape[i] <= 0
    THEN [err |-> "ValueError", heap |-> h, world |-> NoWorld]
    ELSE [err |-> "none",
          heap |-> [h EXCEPT ![id] = Zeros(shape)],
          world |-> [grid_max |-> shape, dimension |-> Len(shape), grid |-> id]]

\* the constructor clamping every non-positive extent to 1
WorldModelND_clamped(h, id, shape) ==
    LET clamped == [i \in DOMAIN shape |-> IF shape[i] <= 0 THEN 1 ELSE shape[i]]
    IN  [err |-> "none",
         heap |-> [h EXCEPT ![id] = Zeros(clamped)],
         world |-> [grid_max |-> [i \in DOMAIN shape |-> clamped[i] - 1],
                    dimension |-> Len(shape),
                    grid |-> id]]

\* WorldModelND(shape): a new all-AIR world whose array is buffer id
WorldModelND(h, id, shape) ==
    IF \E i \in DOMAIN shape : shape[i] <= 0
    THEN [err |-> "ValueError", heap |-> h, world |-> NoWorld]
    ELSE [err |-> "none",
          heap |-> [h EXCEPT ![id] = Zeros(shape)],
          world |-> [grid_max |-> [i \in DOMAIN shape |-> shape[i] - 1],
                     dimension |-> Len(shape),
                     grid |-> id]]

axes_index(w, args) == [i \in DOMAIN args |-> w.dimension - 1 - args[i]]

shape(h, w) == h[w.grid].shape

gmax(w) == [i \in DOMAIN w.grid_max |-> w.grid_max[i]]

\* a point of the wrong length cut or padded with zeros to the dimension
normalize_point_input_padded(w, p) ==
    [err |-> "none",
     p |-> [i \in 1..w.dimension |-> IF i <= Len(p) THEN p[i] ELSE 0]]

\* _normalize_point_input: the assertion on the number of coordinates
normalize_point_input(w, p) ==
    IF Len(p) = w.dimension THEN [err |-> "none", p |-> p]
    ELSE [err |-> "AssertionError", p |-> <<>>]

\* the ordering checked on the first axis only
check_rect_ordering_first_axis(w, p, q) == p[1] <= q[1]

\* _check_rect_ordering: (p <= q).sum() == dimension
check_rect_ordering(w, p, q) ==
    Cardinality({i \in DOMAIN p : p[i] <= q[i]}) = w.dimension

\* q = q + 1; if (grid.shape < q).any(): q = grid.shape
ClipEnd(gshape, q) ==
    LET q1 == [i \in DOMAIN q |-> q[i] + 1]
    IN  IF \E i \in DOMAIN q : gshape[i] < q1[i] THEN gshape ELSE q1

ExclusiveEnd(q) == [i \in DOMAIN q |-> q[i] + 1]

\* fill with the upper corner taken as exclusive (the q + 1 forgotten)
fill_exclusive(h, w, p, q, material) ==
    IF normalize_point_input(w, p).err # "none" \/ normalize_point_input(w, q).err # "none"
    THEN [err |-> "AssertionError", heap |-> h]
    ELSE IF ~check_rect_ordering(w, p, q)
    THEN [err |-> "AssertionError", heap |-> h]
    ELSE LET r == IndexSetScalar(h[w.grid], p, q, material)
         IN  [err |-> r.err, heap |-> [h EXCEPT ![w.grid] = r.out]]

fill(h, w, p, q, material) ==
    LET pn == normalize_point_input(w, p)
        qn == normalize_point_input(w, q)
    IN  IF pn.err # "none" \/ qn.err # "none"
        THEN [err |-> "AssertionError", heap |-> h]
        ELSE IF ~check_rect_ordering(w, pn.p, qn.p)
        THEN [err |-> "AssertionError", heap |-> h]
        ELSE LET r == IndexSetScalar(h[w.grid], pn.p, ClipEnd(shape(h, w), qn.p), material)
             IN  [err |-> r.err, heap |-> [h EXCEPT ![w.grid] = r.out]]

\* point writing the box from p to the cell diagonally after it
point_unit_box(h, w, p, material) ==
    fill(h, w, p, [i \in DOMAIN p |-> p[i] + 1], material)

\* WorldModelND.point(p, material)
point(h, w, p, material) == fill(h, w, p, p, material)

\* all() handing out the grid's own buffer (a view, no copy)
all_view(h, w) == [heap |-> h, ref |-> w.grid]

\* all(): np.array(self._grid), a new array in a buffer of its own
all(h, w) == [heap |-> [h EXCEPT ![Fresh(h)] = CopyArray(h[w.grid])], ref |-> Fresh(h)]

query(h, w, p, q) ==
    LET pn == normalize_point_input(w, p)
        qn == normalize_point_input(w, q)
    IN  IF pn.err # "none" \/ qn.err # "none"
        THEN [err |-> "AssertionError", out |-> NoArray]
        ELSE IF ~check_rect_ordering(w, pn.p, qn.p)
        THEN [err |-> "AssertionError", out |-> NoArray]
        ELSE IndexGet(h[w.grid], pn.p, ClipEnd(shape(h, w), qn.p))

replace(h, w, p, q, block) ==
    LET pn == normalize_point_input(w, p)
        qn == normalize_point_input(w, q)
    IN  IF pn.err # "none" \/ qn.err # "none"
        THEN [err |-> "AssertionError", heap |-> h]
        ELSE IF ~check_rect_ordering(w, pn.p, qn.p)
        THEN [err |-> "AssertionError", heap |-> h]
        ELSE LET r == IndexSetBlock(h[w.grid], pn.p, ExclusiveEnd(qn.p), block)
             IN  [err |-> r.err, heap |-> [h EXCEPT ![w.grid] = r.out]]

\* ---- WorldManager --------------------------------------------------------
\* numpy broadcasting of two 1-d operands: the common length, -1 if none
BroadcastLen(a, b) ==
    IF Len(a) = Len(b) THEN Len(a)
    ELSE IF Len(a) = 1 THEN Len(b)
    ELSE IF Len(b) = 1 THEN Len(a)
    ELSE -1

At(a, i) == IF Len(a) = 1 THEN a[1] ELSE a[i]

\* the minimum forgotten: the requested extent is used as it is
Min_second(a, b) == b

Min(a, b) == IF a <= b THEN a ELSE b

\* build painting WALL whatever the current material is
build_wall(h, w, material, p, q) == fill(h, w, p, q, WALL)

\* WorldManager.build(p, q), material the manager's current_material
build(h, w, material, p, q) == fill(h, w, p, q, material)

\* WorldManager.size
size(w) == gmax(w)

\* resize assigning self.world before the common region is copied
resize_installs_early(h, w, new_shape) ==
    LET n == BroadcastLen(new_shape, size(w))
        failed(e) == [err |-> e, ret |-> FALSE, heap |-> h, world |-> w]
    IN  IF n < 0 THEN failed("ValueError")
        ELSE IF ~(\E i \in 1..n : At(new_shape, i) # At(size(w), i))
        THEN [err |-> "none", ret |-> FALSE, heap |-> h, world |-> w]
        ELSE
        LET new_world == WorldModelND(h, Fresh(h), new_shape)
            min_shape == [i \in 1..n |-> Min(At(size(w), i), At(new_shape, i))]
            zero      == [i \in 1..n |-> 0]
            common    == query(h, w, zero, min_shape)
            early(e)  == [err |-> e, ret |-> FALSE,
                          heap |-> new_world.heap, world |-> new_world.world]
        IN  IF new_world.err # "none" THEN failed(new_world.err)
            ELSE IF common.err # "none" THEN early(common.err)
            ELSE
            LET r == IF \A i \in 1..n : common.out.shape[i] # zero[i]
                     THEN replace(new_world.heap, new_world.world, zero, min_shape, common.out)
                     ELSE [err |-> "none", heap |-> new_world.heap]
            IN  IF r.err # "none" THEN early(r.err)
                ELSE [err |-> "none", ret |-> TRUE,
                      heap |-> r.heap, world |-> new_world.world]

\* resize putting the new array into the old world object, whose maximum
\* coordinates and dimension stay those of the old shape
resize_keeps_limits(h, w, new_shape) ==
    LET n == BroadcastLen(new_shape, size(w))
        failed(e) == [err |-> e, ret |-> FALSE, heap |-> h, world |-> w]
    IN  IF n < 0 THEN failed("ValueError")
        ELSE IF ~(\E i \in 1..n : At(new_shape, i) # At(size(w), i))
        THEN [err |-> "none", ret |-> FALSE, heap |-> h, world |-> w]
        ELSE
        LET new_world == WorldModelND(h, Fresh(h), new_shape)
            min_shape == [i \in 1..n |-> Min(At(size(w), i), At(new_shape, i))]
            zero      == [i \in 1..n |-> 0]
            common    == query(h, w, zero, min_shape)
        IN  IF new_world.err # "none" THEN failed(new_world.err)
            ELSE IF common.err # "none" THEN failed(common.err)
            ELSE
            LET r == IF \A i \in 1..n : common.out.shape[i] # zero[i]
                     THEN replace(new_world.heap, new_world.world, zero, min_shape, common.out)
                     ELSE [err |-> "none", heap |-> new_world.heap]
            IN  IF r.err # "none" THEN failed(r.err)
                ELSE [err |-> "none", ret |-> TRUE,
                      heap |-> r.heap,
                      world |-> [w EXCEPT !.grid = new_world.world.grid]]

\* WorldManager.resize(new_shape)
resize(h, w, new_shape) ==
    LET n == BroadcastLen(new_shape, size(w))
        failed(e) == [err |-> e, ret |-> FALSE, heap |-> h, world |-> w]
    IN  IF n < 0 THEN failed("ValueError")
        ELSE IF ~(\E i \in 1..n : At(new_shape, i) # At(size(w), i))
        THEN [err |-> "none", ret |-> FALSE, heap |-> h, world |-> w]
        ELSE
        LET new_world == WorldModelND(h, Fresh(h), new_shape)
            min_shape == [i \in 1..n |-> Min(At(size(w), i), At(new_shape, i))]
            zero      == [i \in 1..n |-> 0]
            common    == query(h, w, zero, min_shape)
        IN  IF new_world.err # "none" THEN failed(new_world.err)
            ELSE IF common.err # "none" THEN failed(common.err)
            ELSE
            LET r == IF \A i \in 1..n : common.out.shape[i] # zero[i]
                     THEN replace(new_world.heap, new_world.world, zero, min_shape, common.out)
                     ELSE [err |-> "none", heap |-> new_world.heap]
            IN  IF r.err # "none" THEN failed(r.err)
                ELSE [err |-> "none", ret |-> TRUE,
                      heap |-> r.heap, world |-> new_world.world]

\* ---- QtWorldManager ------------------------------------------------------
\* signal.emit(self): the signal and the manager's world as a slot sees it
Emit(signal, h, w) == [signal |-> signal, world |-> w, grid |-> h[w.grid]]

\* QtWorldManager.resize emitting whether or not the world was replaced
qt_resize_always_emits(h, w, new_shape) ==
    LET r == resize(h, w, new_shape)
    IN  [err |-> r.err, ret |-> r.ret, heap |-> r.heap, world |-> r.world,
         signals |-> IF r.err = "none"
                     THEN <<Emit("model_shape_changed", r.heap, r.world)>>
                     ELSE <<>>]

\* QtWorldManager.resize(new_shape)
qt_resize(h, w, new_shape) ==
    LET r == resize(h, w, new_shape)
    IN  [err |-> r.err, ret |-> r.ret, heap |-> r.heap, world |-> r.world,
         signals |-> IF r.err = "none" /\ r.ret
                     THEN <<Emit("model_shape_changed", r.heap, r.world)>>
                     ELSE <<>>]

\* QtWorldManager.model_update(shape)
model_update(h, w, new_shape) ==
    LET n == BroadcastLen(new_shape, size(w))
        unchanged(e) == [err |-> e, ret |-> FALSE, heap |-> h, world |-> w, signals |-> <<>>]
    IN  IF n < 0 THEN unchanged("ValueError")
        ELSE IF \E i \in 1..n : At(new_shape, i) # At(size(w), i)
        THEN qt_resize(h, w, new_shape)
        ELSE unchanged("none")

\* pick_position emitting model_changed before it builds
pick_position_emits_first(h, w, material, pos) ==
    LET r == build(h, w, material, pos, pos)
    IN  [err |-> r.err, heap |-> r.heap, signals |-> <<Emit("model_changed", h, w)>>]

\* QtWorldManager.pick_position(pos)
pick_position(h, w, material, pos) ==
    LET r == build(h, w, material, pos, pos)
    IN  [err |-> r.err, heap |-> r.heap,
         signals |-> IF r.err = "none" THEN <<Emit("model_changed", r.heap, w)>> ELSE <<>>]

\* ---- inputs -------------------------------------------------------------
Shapes == {s \in UNION {[1..d -> 1..MaxExtent] : d \in 1..MaxDim} : Prod(s) <= MaxCells}

\* shapes a caller may ask resize for (0: a non-positive extent)
ShapeRequests == {s \in UNION {[1..d -> 0..MaxExtent] : d \in 1..MaxDim} : Prod(s) <= MaxCells}

\* shapes a caller may construct a world from (0, -1: invalid extents)
ConstructShapes ==
    {s \in UNION {[1..d -> -1..MaxExtent] : d \in 1..MaxDim} :
        Prod([i \in DOMAIN s |-> IF s[i] < 0 THEN -s[i] ELSE s[i]]) <= MaxCells}

\* corner points of a grid: every coordinate of the grid and one beyond it
Points ==
    [s \in Shapes |->
        {x \in [1..Len(s) -> 0..SeqMax(s)] : \A i \in 1..Len(s) : x[i] <= s[i]}]

\* corner pairs: every ordered pair, and the pairs out of order on one axis
Regions ==
    [s \in Shapes |->
        {pq \in Points[s] \X Points[s] :
            \/ \A i \in 1..Len(s) : pq[1][i] <= pq[2][i]
            \/ \E i \in 1..Len(s) : /\ pq[2][i] = pq[1][i] - 1
                                    /\ \A j \in (1..Len(s)) \ {i} : pq[2][j] = pq[1][j]}]

\* corner pairs in which a corner has not as many coordinates as the grid has
\* dimensions: all-zero points of every length up to one above the largest
MismatchedCorners ==
    [s \in Shapes |->
        LET zeros(n) == [i \in 1..n |-> 0]
            wrong    == {zeros(n) : n \in (0..(MaxDim + 1)) \ {Len(s)}}
            any      == wrong \cup {zeros(Len(s))}
        IN  (wrong \X any) \cup (any \X wrong)]

\* positions a widget may pick: the corner points, and all-zero tuples with
\* the wrong number of coordinates
PickPositions ==
    [s \in Shapes |->
        Points[s] \cup {[i \in 1..n |-> 0] : n \in (0..(MaxDim + 1)) \ {Len(s)}}]

\* replacement blocks: of the grid's rank and no larger than the grid
Blocks ==
    [s \in Shapes |->
        UNION {[shape : {t}, cells : [Idx(t) -> Material]] :
                 t \in {u \in Shapes : /\ Len(u) = Len(s)
                                       /\ Prod(u) <= MaxBlockCells
                                       /\ \A i \in 1..Len(s) : u[i] <= s[i]}}]

\* ---- the record of the last call ------------------------------------------
Call(op, p, q, m, ns, block, err, ret, out) ==
    [op |-> op, p |-> p, q |-> q, m |-> m, new_shape |-> ns, block |-> block,
     pre |-> world, preGrid |-> heap[world.grid], preMaterial |-> current_material,
     err |-> err, ret |-> ret, out |-> out, new_world |-> NoWorld, signals |-> <<>>]

NoCall ==
    [op |-> "none", p |-> <<>>, q |-> <<>>, m |-> AIR, new_shape |-> <<>>,
     block |-> NoArray, pre |-> NoWorld, preGrid |-> NoArray,
     preMaterial |-> AIR, err |-> "none", ret |-> FALSE, out |-> NoArray,
     new_world |-> NoWorld, signals |-> <<>>]

Grid == heap[world.grid]

Live(w, s) == {w.grid} \cup (IF s = 0 THEN {} ELSE {s})

InitFrom(shapes) ==
    /\ \E s \in shapes :
         LET c == WorldModelND([b \in BufIds |-> NoArray], 1, s)
         IN  heap = c.heap /\ world = c.world
    /\ current_material = AIR
    /\ snap = 0
    /\ snapTaken = NoArray
    /\ file = NoFile
    /\ pc = "idle"
    /\ last = NoCall

Init == InitFrom(Shapes)

\* ---- actions --------------------------------------------------------------
\* Calls are synchronous and made one at a time; after a call has returned
\* the caller goes back to idle before it makes the next one.
Continue ==
    /\ pc = "returned"
    /\ pc' = "idle"
    /\ last' = NoCall
    /\ UNCHANGED <<heap, world, current_material, snap, snapTaken, file>>

Fill(p, q, m) ==
    LET r == fill(heap, world, p, q, m)
    IN  /\ heap' = r.heap
        /\ last' = Call("fill", p, q, m, <<>>, NoArray, r.err, FALSE, NoArray)
        /\ UNCHANGED <<world, current_material, snap, snapTaken, file>>

Point(p, m) ==
    LET r == point(heap, world, p, m)
    IN  /\ heap' = r.heap
        /\ last' = Call("point", p, p, m, <<>>, NoArray, r.err, FALSE, NoArray)
        /\ UNCHANGED <<world, current_material, snap, snapTaken, file>>

\* keep: the caller holds on to the returned array
Query(p, q, keep) ==
    LET r == query(heap, world, p, q)
        held == keep /\ r.err = "none"
        id == Fresh(Collect(heap, {world.grid}))
    IN  /\ snap' = IF held THEN id ELSE snap
        /\ snapTaken' = IF held THEN r.out ELSE snapTaken
        /\ heap' = IF held THEN [Collect(heap, {world.grid}) EXCEPT ![id] = r.out] ELSE heap
        /\ last' = Call("query", p, q, AIR, <<>>, NoArray, r.err, FALSE, r.out)
        /\ UNCHANGED <<world, current_material, file>>

All(keep) ==
    LET r == all(Collect(heap, IF keep THEN {world.grid} ELSE Live(world, snap)), world)
    IN  /\ snap' = IF keep THEN r.ref ELSE snap
        /\ snapTaken' = IF keep THEN r.heap[r.ref] ELSE snapTaken
        /\ heap' = Collect(r.heap, Live(world, snap'))
        /\ last' = Call("all", <<>>, <<>>, AIR, <<>>, NoArray, "none", FALSE, r.heap[r.ref])
        /\ UNCHANGED <<world, current_material, file>>

\* the holder of a returned array writes one of its cells
WriteSnapshot(x, m) ==
    /\ snap # 0
    /\ x \in DOMAIN heap[snap].cells
    /\ heap' = [heap EXCEPT ![snap].cells[x] = m]
    /\ snapTaken' = [snapTaken EXCEPT !.cells[x] = m]
    /\ last' = Call("snapshot_write", x, x, m, <<>>, NoArray, "none", FALSE, NoArray)
    /\ UNCHANGED <<world, current_material, snap, file>>

Replace(p, q, block) ==
    LET r == replace(heap, world, p, q, block)
    IN  /\ heap' = r.heap
        /\ last' = Call("replace", p, q, AIR, <<>>, block, r.err, FALSE, NoArray)
        /\ UNCHANGED <<world, current_material, snap, snapTaken, file>>

\* the round trip world.replace(p, q, world.query(p, q))
ReplaceQuery(p, q) ==
    LET b == query(heap, world, p, q)
        r == IF b.err # "none" THEN [err |-> b.err, heap |-> heap]
             ELSE replace(heap, world, p, q, b.out)
    IN  /\ heap' = r.heap
        /\ last' = Call("replace_query", p, q, AIR, <<>>, b.out, r.err, FALSE, NoArray)
        /\ UNCHANGED <<world, current_material, snap, snapTaken, file>>

Resize(new_shape) ==
    LET r == resize(heap, world, new_shape)
    IN  /\ heap' = Collect(r.heap, Live(r.world, snap))
        /\ world' = r.world
        /\ last' = Call("resize", <<>>, <<>>, AIR, new_shape, NoArray, r.err, r.ret, NoArray)
        /\ UNCHANGED <<current_material, snap, snapTaken, file>>

SetMaterial(material) ==
    /\ current_material' = material
    /\ last' = Call("set_material", <<>>, <<>>, material, <<>>, NoArray, "none", FALSE, NoArray)
    /\ UNCHANGED <<heap, world, snap, snapTaken, file>>

Build(p, q) ==
    LET r == build(heap, world, current_material, p, q)
    IN  /\ heap' = r.heap
        /\ last' = Call("build", p, q, current_material, <<>>, NoArray, r.err, FALSE, NoArray)
        /\ UNCHANGED <<world, current_material, snap, snapTaken, file>>

\* WorldModelND(shape) called on its own; the caller reads the world it gets
\* and lets go of it
Construct(new_shape) ==
    LET h == Collect(heap, Live(world, snap))
        c == WorldModelND(h, Fresh(h), new_shape)
    IN  /\ last' = [Call("construct", <<>>, <<>>, AIR, new_shape, NoArray, c.err, FALSE,
                          IF c.err = "none" THEN c.heap[c.world.grid] ELSE NoArray)
                     EXCEPT !.new_world = c.world]
        /\ UNCHANGED <<heap, world, current_material, snap, snapTaken, file>>

\* a call is made when the caller is idle, and returns before the next one
Called(A) == pc = "idle" /\ pc' = "returned" /\ A

DoFill == Called(\E pq \in Regions[Grid.shape], m \in Material : Fill(pq[1], pq[2], m))
DoPoint == Called(\E p \in Points[Grid.shape], m \in Material : Point(p, m))
DoQuery == Called(\E pq \in Regions[Grid.shape] : Query(pq[1], pq[2], FALSE))
DoAll == Called(All(FALSE))
DoReplace == Called(\E pq \in Regions[Grid.shape], block \in Blocks[Grid.shape] :
                       Replace(pq[1], pq[2], block))
DoReplaceQuery == Called(\E pq \in Regions[Grid.shape] : ReplaceQuery(pq[1], pq[2]))
DoResize == Called(\E s \in ShapeRequests : Resize(s))
DoSetMaterial == Called(\E m \in Material : SetMaterial(m))
DoBuild == Called(\E pq \in Regions[Grid.shape] : Build(pq[1], pq[2]))
DoConstruct == Called(\E s \in ConstructShapes : Construct(s))

Next ==
    \/ Continue
    \/ DoFill
    \/ DoPoint
    \/ DoQuery
    \/ DoAll
    \/ DoReplaceQuery
    \/ DoResize
    \/ DoSetMaterial
    \/ DoBuild
    \/ DoConstruct

Spec == Init /\ [][Next]_vars

\* region calls whose corners have the wrong number of coordinates
DoFillMismatched ==
    Called(\E pq \in MismatchedCorners[Grid.shape], m \in Material : Fill(pq[1], pq[2], m))
DoQueryMismatched ==
    Called(\E pq \in MismatchedCorners[Grid.shape] : Query(pq[1], pq[2], FALSE))
DoReplaceMismatched ==
    Called(\E pq \in MismatchedCorners[Grid.shape], block \in Blocks[Grid.shape] :
              Replace(pq[1], pq[2], block))
DoPointMismatched ==
    Called(\E p \in PickPositions[Grid.shape] \ Points[Grid.shape], m \in Material :
              Point(p, m))

\* ---- the widgets driving the Qt manager ------------------------------------
QtResize(new_shape) ==
    LET r == qt_resize(heap, world, new_shape)
    IN  /\ heap' = Collect(r.heap, Live(r.world, snap))
        /\ world' = r.world
        /\ last' = [Call("qt_resize", <<>>, <<>>, AIR, new_shape, NoArray, r.err, r.ret, NoArray)
                     EXCEPT !.signals = r.signals]
        /\ UNCHANGED <<current_material, snap, snapTaken, file>>

ModelUpdate(new_shape) ==
    LET r == model_update(heap, world, new_shape)
    IN  /\ heap' = Collect(r.heap, Live(r.world, snap))
        /\ world' = r.world
        /\ last' = [Call("model_update", <<>>, <<>>, AIR, new_shape, NoArray, r.err, FALSE, NoArray)
                     EXCEPT !.signals = r.signals]
        /\ UNCHANGED <<current_material, snap, snapTaken, file>>

\* QtWorldManager.select_material(material)
SelectMaterial(material) ==
    /\ current_material' = material
    /\ last' = Call("select_material", <<>>, <<>>, material, <<>>, NoArray, "none", FALSE, NoArray)
    /\ UNCHANGED <<heap, world, snap, snapTaken, file>>

PickPosition(pos) ==
    LET r == pick_position(heap, world, current_material, pos)
    IN  /\ heap' = r.heap
        /\ last' = [Call("pick_position", pos, pos, current_material, <<>>, NoArray,
                          r.err, FALSE, NoArray)
                     EXCEPT !.signals = r.signals]
        /\ UNCHANGED <<world, current_material, snap, snapTaken, file>>

DoQtResize == Called(\E s \in ShapeRequests : QtResize(s))
DoModelUpdate == Called(\E s \in ShapeRequests : ModelUpdate(s))
DoSelectMaterial == Called(\E m \in Material : SelectMaterial(m))
DoPickPosition == Called(\E p \in PickPositions[Grid.shape] : PickPosition(p))

NextQt ==
    \/ Continue
    \/ DoQtResize
    \/ DoModelUpdate
    \/ DoSelectMaterial
    \/ DoPickPosition

SpecQt == Init /\ [][NextQt]_vars

\* the caller that overwrites regions with blocks of its own and passes
\* corners of any kind
NextReplace ==
    \/ Continue
    \/ DoReplace
    \/ DoQuery
    \/ DoFill
    \/ DoFillMismatched
    \/ DoQueryMismatched
    \/ DoReplaceMismatched
    \/ DoPoint
    \/ DoPointMismatched

SpecReplace == Init /\ [][NextReplace]_vars

\* ---- callers that hold on to returned arrays --------------------------------
Cells == UNION {Idx(s) : s \in Shapes}

\* single cells and the whole coordinate range
SnapRegions ==
    [s \in Shapes |->
        {pq \in Regions[s] :
            pq[1] = pq[2] \/ (\A i \in 1..Len(s) : pq[1][i] = 0 /\ pq[2][i] = s[i])}]

UnitBlocks == [s \in Shapes |-> {b \in Blocks[s] : Prod(b.shape) = 1}]

\* the grids a snapshot is taken of: few cells, at most one axis of extent 1
SnapShapes ==
    {s \in Shapes : /\ Prod(s) <= MaxSnapCells
                    /\ Cardinality({i \in DOMAIN s : s[i] = 1}) <= 1}

KeepAll == Called(All(TRUE))
KeepQuery == Called(\E pq \in Regions[Grid.shape] : Query(pq[1], pq[2], TRUE))
DoWriteSnapshot == Called(\E x \in Cells, m \in Material : WriteSnapshot(x, m))
SnapFill == Called(\E pq \in SnapRegions[Grid.shape], m \in Material : Fill(pq[1], pq[2], m))
SnapPoint == Called(\E p \in Points[Grid.shape], m \in Material : Point(p, m))
SnapReplace == Called(\E pq \in SnapRegions[Grid.shape], block \in UnitBlocks[Grid.shape] :
                         Replace(pq[1], pq[2], block))
SnapBuild == Called(\E pq \in SnapRegions[Grid.shape] : Build(pq[1], pq[2]))

SnapResize == Called(\E s \in {t \in SnapShapes : Len(t) = world.dimension} : Resize(s))

NextSnap ==
    \/ Continue
    \/ KeepAll
    \/ KeepQuery
    \/ DoWriteSnapshot
    \/ SnapFill
    \/ SnapPoint
    \/ SnapReplace
    \/ SnapBuild
    \/ SnapResize

InitSnap == InitFrom(SnapShapes)

SpecSnap == InitSnap /\ [][NextSnap]_vars

\* ---- projection ------------------------------------------------------------
\* WorldModelND.load: cls(grid.shape, grid), the world around a stored array
load(h, id, grid) ==
    [heap |-> [h EXCEPT ![id] = grid],
     world |-> [grid_max |-> [i \in DOMAIN grid.shape |-> grid.shape[i] - 1],
                dimension |-> Len(grid.shape),
                grid |-> id]]

\* the members of a set of integers in ascending order
Ascending(S) ==
    [i \in 1..Cardinality(S) |->
        CHOOSE a \in S : Cardinality({b \in S : b < a}) = i - 1]

\* the axes kept as they were given, neither sorted nor de-duplicated
unique_asis(axes) == axes

\* np.unique(axes): the distinct values in ascending order
unique(axes) == Ascending({axes[i] : i \in DOMAIN axes})

\* ProjectMD.__init__ / Project2D.__init__
ProjectMD(axes) == [axes |-> unique(axes)]

Project2D(ax0, ax1) == ProjectMD(<<ax0, ax1>>)

\* np.delete(grid_shape, axes): the axes that are collapsed, ascending
CollapsedAxes(axes, dimension) ==
    Ascending((0..(dimension - 1)) \ {axes[i] : i \in DOMAIN axes})

\* the index tuple of flat position k in an array of shape shp (C order)
Unravel(k, shp) ==
    [j \in DOMAIN shp |->
        (k \div Prod(SubSeq(shp, j + 1, Len(shp)))) % shp[j]]

\* for every storage axis, its position in a list of axes (0: not listed)
AxisPosition(axes, dimension) ==
    [k \in 1..dimension |->
        IF \E j \in DOMAIN axes : axes[j] = k - 1
        THEN CHOOSE j \in DOMAIN axes : axes[j] = k - 1
        ELSE 0]

\* _get_full_index with the slices resolved at offset c of the collapsed axes
FullIndex(kept_at, collapsed_at, idx, c) ==
    [k \in DOMAIN kept_at |->
        IF kept_at[k] # 0 THEN idx[kept_at[k]] ELSE c[collapsed_at[k]]]

\* the solid taken from the far end of the slice: ndslice[solid][-1]
LastSolid(ndslice) ==
    IF \E k \in DOMAIN ndslice : ndslice[k] # AIR
    THEN ndslice[CHOOSE k \in DOMAIN ndslice :
                    ndslice[k] # AIR /\ \A l \in DOMAIN ndslice : ndslice[l] # AIR => l <= k]
    ELSE AIR

\* the solid taken one place too far: ndslice[solid][1], AIR if there is none
SecondSolid(ndslice) ==
    LET solid == {k \in DOMAIN ndslice : ndslice[k] # AIR}
    IN  IF Cardinality(solid) >= 2
        THEN ndslice[CHOOSE k \in solid : Cardinality({l \in solid : l < k}) = 1]
        ELSE AIR

\* the slice reduced to a flag: WALL if solid.any() else AIR
SolidFlag(ndslice) ==
    IF \E k \in DOMAIN ndslice : ndslice[k] # AIR THEN WALL ELSE AIR

\* ndslice[ndslice != AIR][0] if solid.any() else AIR
FirstSolid(ndslice) ==
    IF \E k \in DOMAIN ndslice : ndslice[k] # AIR
    THEN ndslice[CHOOSE k \in DOMAIN ndslice :
                    ndslice[k] # AIR /\ \A l \in DOMAIN ndslice : ndslice[l] # AIR => k <= l]
    ELSE AIR

\* projection without the assertion on the number of axes
projection_unasserted(self, grid) ==
    LET dimension == Len(grid.shape) IN
    IF \E j \in DOMAIN self.axes : self.axes[j] >= dimension
    THEN [err |-> "IndexError", out |-> NoArray]
    ELSE
    LET out_shape    == [j \in DOMAIN self.axes |-> grid.shape[self.axes[j] + 1]]
        collapsed    == CollapsedAxes(self.axes, dimension)
        slice_shape  == [j \in DOMAIN collapsed |-> grid.shape[collapsed[j] + 1]]
        kept_at      == AxisPosition(self.axes, dimension)
        collapsed_at == AxisPosition(collapsed, dimension)
        offsets      == [k \in 0..(Prod(slice_shape) - 1) |-> Unravel(k, slice_shape)]
        ndslice(idx) ==
            [k \in DOMAIN offsets |->
                grid.cells[FullIndex(kept_at, collapsed_at, idx, offsets[k])]]
    IN  [err |-> "none",
         out |-> [shape |-> out_shape,
                  cells |-> [idx \in Idx(out_shape) |-> FirstSolid(ndslice(idx))]]]

\* ProjectMD.projection(grid)
projection(self, grid) ==
    LET dimension == Len(grid.shape) IN
    IF ~(dimension >= Len(self.axes))
    THEN [err |-> "AssertionError", out |-> NoArray]
    ELSE IF \E j \in DOMAIN self.axes : self.axes[j] >= dimension
    THEN [err |-> "IndexError", out |-> NoArray]
    ELSE
    LET out_shape    == [j \in DOMAIN self.axes |-> grid.shape[self.axes[j] + 1]]
        collapsed    == CollapsedAxes(self.axes, dimension)
        slice_shape  == [j \in DOMAIN collapsed |-> grid.shape[collapsed[j] + 1]]
        kept_at      == AxisPosition(self.axes, dimension)
        collapsed_at == AxisPosition(collapsed, dimension)
        offsets      == [k \in 0..(Prod(slice_shape) - 1) |-> Unravel(k, slice_shape)]
        ndslice(idx) ==
            [k \in DOMAIN offsets |->
                grid.cells[FullIndex(kept_at, collapsed_at, idx, offsets[k])]]
    IN  [err |-> "none",
         out |-> [shape |-> out_shape,
                  cells |-> [idx \in Idx(out_shape) |-> FirstSolid(ndslice(idx))]]]

\* Project2D.projection without the reshape of a 1-d result
projection2D_flat(self, grid) == projection(self, grid)

\* Project2D.projection(grid)
projection2D(self, grid) ==
    LET pgrid == projection(self, grid)
    IN  IF pgrid.err # "none" THEN pgrid
        ELSE IF Len(pgrid.out.shape) = 1
        THEN [err |-> "none",
              out |-> [shape |-> <<pgrid.out.shape[1], 1>>,
                       cells |-> [x \in Idx(<<pgrid.out.shape[1], 1>>) |->
                                    pgrid.out.cells[<<x[1]>>]]]]
        ELSE pgrid

\* source grids: stored arrays with at most one axis of extent 1 and with
\* few solid cells
ProjShapes ==
    {s \in UNION {[1..d -> 1..MaxExtent] : d \in 1..ProjMaxDim} :
        /\ Prod(s) <= ProjMaxCells
        /\ Cardinality({i \in DOMAIN s : s[i] = 1}) <= 1}

\* cell values of a source array: AIR, WALL and one more solid value
ProjMaterials == Material \cup {WALL + 1}

ProjGrids ==
    UNION {[shape : {s},
            cells : {c \in [Idx(s) -> ProjMaterials] :
                       Cardinality({x \in Idx(s) : c[x] # AIR}) <= MaxSolid}] : s \in ProjShapes}

\* axis lists: every list of one or two axes, and the ascending longer ones
AxesLists ==
    {s \in UNION {[1..n -> 0..(ProjMaxDim - 1)] : n \in 1..ProjMaxDim} :
        Len(s) <= 2 \/ \A i \in 1..(Len(s) - 1) : s[i] < s[i + 1]}

InitProj ==
    /\ \E g \in ProjGrids :
         LET c == load([b \in BufIds |-> NoArray], 1, g)
         IN  heap = c.heap /\ world = c.world
    /\ current_material = AIR
    /\ snap = 0
    /\ snapTaken = NoArray
    /\ file = NoFile
    /\ pc = "idle"
    /\ last = NoCall

\* ProjectMD(axes).projection(world.all())
Projection(axes) ==
    LET a == all(heap, world)
        r == projection(ProjectMD(axes), a.heap[a.ref])
    IN  /\ heap' = Collect(a.heap, Live(world, snap))
        /\ last' = Call("projection", axes, <<>>, AIR, <<>>, NoArray, r.err, FALSE, r.out)
        /\ UNCHANGED <<world, current_material, snap, snapTaken, file>>

\* Project2D(ax0, ax1).projection(world.all())
Projection2D(ax0, ax1) ==
    LET a == all(heap, world)
        r == projection2D(Project2D(ax0, ax1), a.heap[a.ref])
    IN  /\ heap' = Collect(a.heap, Live(world, snap))
        /\ last' = Call("projection2d", <<ax0, ax1>>, <<>>, AIR, <<>>, NoArray, r.err, FALSE, r.out)
        /\ UNCHANGED <<world, current_material, snap, snapTaken, file>>

DoProjection == Called(\E axes \in AxesLists : Projection(axes))
DoProjection2D == Called(\E ax0, ax1 \in 0..(ProjMaxDim - 1) : Projection2D(ax0, ax1))

NextProj ==
    \/ Continue
    \/ DoProjection

SpecProj == InitProj /\ [][NextProj]_vars

\* the two-dimensional views
NextProj2D ==
    \/ Continue
    \/ DoProjection2D

SpecProj2D == InitProj /\ [][NextProj2D]_vars

\* ---- projections applied one after the other ---------------------------------
\* source grids holding the two materials only
TwoMaterialGrids == {g \in ProjGrids : \A x \in DOMAIN g.cells : g.cells[x] \in Material}

InitCompose ==
    /\ \E g \in TwoMaterialGrids :
         LET c == load([b \in BufIds |-> NoArray], 1, g)
         IN  heap = c.heap /\ world = c.world
    /\ current_material = AIR
    /\ snap = 0
    /\ snapTaken = NoArray
    /\ file = NoFile
    /\ pc = "idle"
    /\ last = NoCall

\* the axis sets of a grid of the given dimension, as ascending lists
AxisSets(dimension) ==
    {a \in AxesLists : /\ \A i \in 1..(Len(a) - 1) : a[i] < a[i + 1]
                       /\ \A i \in DOMAIN a : a[i] < dimension}

\* the positions the axes of B occupy within the ascending list A
PositionsWithin(A, B) ==
    [j \in DOMAIN B |-> (CHOOSE i \in DOMAIN A : A[i] = B[j]) - 1]

\* ProjectMD(B).projection(grid) next to
\* ProjectMD(positions of B in A).projection(ProjectMD(A).projection(grid));
\* the call record keeps the first result in block and the second in out
Compose(A, B) ==
    LET a      == all(heap, world)
        grid   == a.heap[a.ref]
        direct == projection(ProjectMD(B), grid)
        onto_A == projection(ProjectMD(A), grid)
        then_B == IF onto_A.err # "none" THEN onto_A
                  ELSE projection(ProjectMD(PositionsWithin(A, B)), onto_A.out)
    IN  /\ heap' = Collect(a.heap, Live(world, snap))
        /\ last' = [Call("compose", A, B, AIR, <<>>, direct.out, then_B.err, FALSE, then_B.out)
                     EXCEPT !.ret = (direct.err = "none")]
        /\ UNCHANGED <<world, current_material, snap, snapTaken, file>>

DoCompose ==
    Called(\E A \in AxisSets(Len(Grid.shape)) :
             \E B \in {b \in AxisSets(Len(Grid.shape)) :
                          \A j \in DOMAIN b : \E i \in DOMAIN A : A[i] = b[j]} :
                Compose(A, B))

NextCompose ==
    \/ Continue
    \/ DoCompose

SpecCompose == InitCompose /\ [][NextCompose]_vars

\* ---- views of a world under edit ---------------------------------------------
\* projection wiping the array it is given
projection_source_wiped(self, grid) == Zeros(grid.shape)

\* the array handed to projection(grid), as the call leaves it: grid is only
\* indexed for reading, every assignment of the loop goes to pgrid
projection_source(self, grid) == grid

\* redraw handing the display the xy grid with its two axes exchanged
redraw_transposed(h, w) ==
    IF ~(w.dimension >= 2) THEN [err |-> "AssertionError", out |-> NoArray]
    ELSE
    LET world_grid == all(h, w)
        ax         == axes_index(w, <<0, 1>>)
        r          == projection2D(Project2D(ax[1], ax[2]), world_grid.heap[world_grid.ref])
    IN  IF r.err # "none" THEN r
        ELSE [err |-> "none",
              out |-> [shape |-> <<r.out.shape[2], r.out.shape[1]>>,
                       cells |-> [x \in Idx(<<r.out.shape[2], r.out.shape[1]>>) |->
                                    r.out.cells[<<x[2], x[1]>>]]]]

\* Grid2DViewBuilder.redraw(manager): the grid handed to xy_display.set_world,
\* whose cell (x, y) the display draws at column x, row y
redraw(h, w) ==
    IF ~(w.dimension >= 2) THEN [err |-> "AssertionError", out |-> NoArray]
    ELSE
    LET world_grid == all(h, w)
        ax         == axes_index(w, <<0, 1>>)
        xy_plane   == Project2D(ax[1], ax[2])
    IN  projection2D(xy_plane, world_grid.heap[world_grid.ref])

\* ProjectMD(axes).projection(world.all()) on the manager's world; the call
\* record keeps the source array as the call left it
ViewMD(axes) ==
    LET a == all(heap, world)
        self == ProjectMD(axes)
        r == projection(self, a.heap[a.ref])
        h == [a.heap EXCEPT ![a.ref] = projection_source(self, a.heap[a.ref])]
    IN  /\ heap' = Collect(h, Live(world, snap))
        /\ last' = Call("projection", axes, <<>>, AIR, <<>>, h[a.ref], r.err, FALSE, r.out)
        /\ UNCHANGED <<world, current_material, snap, snapTaken, file>>

\* Project2D(ax0, ax1).projection(world.all()) on the manager's world
View2D(ax0, ax1) ==
    LET a == all(heap, world)
        self == Project2D(ax0, ax1)
        r == projection2D(self, a.heap[a.ref])
        h == [a.heap EXCEPT ![a.ref] = projection_source(self, a.heap[a.ref])]
    IN  /\ heap' = Collect(h, Live(world, snap))
        /\ last' = Call("projection2d", <<ax0, ax1>>, <<>>, AIR, <<>>, h[a.ref], r.err, FALSE, r.out)
        /\ UNCHANGED <<world, current_material, snap, snapTaken, file>>

DoViewMD == Called(\E axes \in AxesLists : ViewMD(axes))
DoView2D == Called(\E ax0, ax1 \in 0..(MaxDim - 1) : View2D(ax0, ax1))

NextView ==
    \/ Continue
    \/ DoSetMaterial
    \/ DoBuild
    \/ DoResize
    \/ DoViewMD
    \/ DoView2D

SpecView == Init /\ [][NextView]_vars

\* ---- persistence -----------------------------------------------------------
\* the flat position (C order) of index tuple x in an array of shape shp
Ravel(x, shp) ==
    LET RECURSIVE pos(_)
        pos(j) == IF j = 0 THEN 0 ELSE pos(j - 1) * shp[j] + x[j]
    IN  pos(Len(shp))

\* np.save(handle, a): the shape, then the values of a in C order
np_save(a) ==
    [shape |-> a.shape,
     data  |-> [k \in 1..Prod(a.shape) |-> a.cells[Unravel(k - 1, a.shape)]]]

\* np.load reading the data in column-major order
np_load_fortran(f) ==
    LET RECURSIVE pos(_, _)
        pos(x, j) == IF j > Len(f.shape) THEN 0 ELSE x[j] + f.shape[j] * pos(x, j + 1)
    IN  [shape |-> f.shape,
         cells |-> [x \in Idx(f.shape) |-> f.data[pos(x, 1) + 1]]]

\* np.load(handle): an array of the stored shape filled from the data
np_load(f) ==
    [shape |-> f.shape,
     cells |-> [x \in Idx(f.shape) |-> f.data[Ravel(x, f.shape) + 1]]]

\* WorldModelND.save(handle): the contents of the handle afterwards
save(h, w) == np_save(h[w.grid])

\* world.save(handle)
Save ==
    /\ file' = save(heap, world)
    /\ last' = Call("save", <<>>, <<>>, AIR, <<>>, NoArray, "none", FALSE, NoArray)
    /\ UNCHANGED <<heap, world, current_material, snap, snapTaken>>

\* WorldModelND.load(handle) on a handle that save() wrote; the caller reads
\* the world it gets and lets go of it
Load ==
    /\ file # NoFile
    /\ LET h == Collect(heap, Live(world, snap))
           c == load(h, Fresh(h), np_load(file))
       IN  last' = [Call("load", <<>>, <<>>, AIR, <<>>, NoArray, "none", FALSE,
                         c.heap[c.world.grid])
                    EXCEPT !.new_world = c.world]
    /\ UNCHANGED <<heap, world, current_material, snap, snapTaken, file>>

DoSave == Called(Save)
DoLoad == Called(Load)

NextPersist ==
    \/ Continue
    \/ DoSave
    \/ DoLoad

SpecPersist == InitProj /\ [][NextPersist]_vars

\* ---- properties ------------------------------------------------------------
Ordered(p, q) == Len(p) = Len(q) /\ \A i \in DOMAIN p : p[i] <= q[i]

InGrid(x, shp) == Len(x) = Len(shp) /\ \A i \in DOMAIN x : 0 <= x[i] /\ x[i] < shp[i]

InBox(x, p, q) == \A i \in DOMAIN x : p[i] <= x[i] /\ x[i] <= q[i]

BoxShape(p, q) == [i \in DOMAIN p |-> q[i] - p[i] + 1]

Returned(op) == pc = "returned" /\ last.op = op

\* C1: after fill(p, q, WALL) with p <= q and both corners inside the grid,
\* query(p, q) is all WALL and every cell outside the closed box [p, q]
\* has the value it had before the call.
C1_FillInside ==
    ( /\ Returned("fill") /\ last.m = WALL
      /\ Ordered(last.p, last.q)
      /\ InGrid(last.p, last.preGrid.shape) /\ InGrid(last.q, last.preGrid.shape) )
    => /\ last.err = "none"
       /\ LET r == query(heap, world, last.p, last.q)
          IN  /\ r.err = "none"
              /\ r.out.shape = BoxShape(last.p, last.q)
              /\ \A o \in DOMAIN r.out.cells : r.out.cells[o] = WALL
       /\ DOMAIN Grid.cells = DOMAIN last.preGrid.cells
       /\ \A x \in DOMAIN Grid.cells :
             ~InBox(x, last.p, last.q) => Grid.cells[x] = last.preGrid.cells[x]

C1_Witness ==
    /\ Returned("fill") /\ last.m = WALL /\ last.err = "none"
    /\ Ordered(last.p, last.q)
    /\ InGrid(last.p, last.preGrid.shape) /\ InGrid(last.q, last.preGrid.shape)
    /\ \E x \in DOMAIN last.preGrid.cells :
          InBox(x, last.p, last.q) /\ last.preGrid.cells[x] = AIR
    /\ \E y \in DOMAIN last.preGrid.cells :
          ~InBox(y, last.p, last.q) /\ last.preGrid.cells[y] = WALL

SameRank(a, b) == Len(a) = Len(b)

\* C2: resize to a shape >= the current one on every axis and larger on one
\* succeeds; the new grid has the new shape, keeps every old cell at its
\* coordinate and has AIR in every added cell.
C2_ResizeGrow ==
    ( /\ Returned("resize") /\ SameRank(last.new_shape, last.preGrid.shape)
      /\ \A i \in DOMAIN last.new_shape : last.new_shape[i] >= last.preGrid.shape[i]
      /\ \E i \in DOMAIN last.new_shape : last.new_shape[i] > last.preGrid.shape[i] )
    => /\ last.err = "none"
       /\ Grid.shape = last.new_shape
       /\ DOMAIN Grid.cells = Idx(last.new_shape)
       /\ \A x \in DOMAIN Grid.cells :
             Grid.cells[x] = IF x \in DOMAIN last.preGrid.cells
                             THEN last.preGrid.cells[x] ELSE AIR

C2_Witness ==
    /\ Returned("resize") /\ SameRank(last.new_shape, last.preGrid.shape)
    /\ \A i \in DOMAIN last.new_shape : last.new_shape[i] >= last.preGrid.shape[i]
    /\ \E i \in DOMAIN last.new_shape : last.new_shape[i] > last.preGrid.shape[i]
    /\ \E x \in DOMAIN last.preGrid.cells : last.preGrid.cells[x] = WALL
    /\ \E x \in DOMAIN last.preGrid.cells : last.preGrid.cells[x] = AIR

\* C3: resize to a shape smaller along at least one axis (all extents >= 1)
\* succeeds; the new grid has the new shape and every cell inside both grids
\* keeps its value.
C3_ResizeShrink ==
    ( /\ Returned("resize") /\ SameRank(last.new_shape, last.preGrid.shape)
      /\ \A i \in DOMAIN last.new_shape : last.new_shape[i] >= 1
      /\ \E i \in DOMAIN last.new_shape : last.new_shape[i] < last.preGrid.shape[i] )
    => /\ last.err = "none"
       /\ Grid.shape = last.new_shape
       /\ \A x \in DOMAIN Grid.cells :
             x \in DOMAIN last.preGrid.cells => Grid.cells[x] = last.preGrid.cells[x]

\* C4: resize to the current shape returns false: the owned grid is not
\* replaced and no cell changes.
C4_ResizeSame ==
    ( Returned("resize") /\ last.new_shape = last.preGrid.shape )
    => /\ last.err = "none"
       /\ last.ret = FALSE
       /\ world = last.pre
       /\ Grid = last.preGrid

\* C5: resize to a shape of the current dimension with all extents >= 1 that
\* differs from the current shape returns true and the grid then has that shape.
C5_ResizeReturnsTrue ==
    ( /\ Returned("resize") /\ SameRank(last.new_shape, last.preGrid.shape)
      /\ \A i \in DOMAIN last.new_shape : last.new_shape[i] >= 1
      /\ last.new_shape # last.preGrid.shape )
    => /\ last.err = "none"
       /\ last.ret = TRUE
       /\ Grid.shape = last.new_shape

Beyond(q, shp) == \E i \in DOMAIN q : q[i] >= shp[i]

\* min(q, gmax) component-wise
ClipCorner(q, shp) == [i \in DOMAIN q |-> IF q[i] < shp[i] THEN q[i] ELSE shp[i] - 1]

\* C8: fill and query with p inside the grid, p <= q and q beyond the last
\* coordinate on some axis act on exactly the box [p, min(q, gmax)].
C8_ClipComponentwise ==
    /\ ( /\ Returned("fill") /\ Ordered(last.p, last.q)
         /\ InGrid(last.p, last.preGrid.shape) /\ Beyond(last.q, last.preGrid.shape) )
       => /\ last.err = "none"
          /\ DOMAIN Grid.cells = DOMAIN last.preGrid.cells
          /\ \A x \in DOMAIN Grid.cells :
                Grid.cells[x] =
                   IF InBox(x, last.p, ClipCorner(last.q, last.preGrid.shape))
                   THEN last.m ELSE last.preGrid.cells[x]
    /\ ( /\ Returned("query") /\ Ordered(last.p, last.q)
         /\ InGrid(last.p, last.preGrid.shape) /\ Beyond(last.q, last.preGrid.shape) )
       => /\ last.err = "none"
          /\ last.out.shape = BoxShape(last.p, ClipCorner(last.q, last.preGrid.shape))
          /\ \A o \in DOMAIN last.out.cells :
                last.out.cells[o] =
                   last.preGrid.cells[[i \in DOMAIN o |-> last.p[i] + o[i]]]

\* the storage index of point p under the reversal of axes_index:
\* coordinate i lies on storage axis dimension - 1 - i
Rev(p) == [k \in DOMAIN p |-> p[Len(p) + 1 - k]]

\* C9: point(p, m) writes the storage cell whose index along storage axis
\* d-1-i is x_i, and no other cell.
C9_ReversedAddressing ==
    ( /\ Returned("point") /\ last.err = "none"
      /\ InGrid(last.p, last.preGrid.shape) /\ InGrid(Rev(last.p), last.preGrid.shape) )
    => /\ Grid.cells[Rev(last.p)] = last.m
       /\ \A x \in DOMAIN Grid.cells :
             x # Rev(last.p) => Grid.cells[x] = last.preGrid.cells[x]

\* C10: for every region with p <= q and p inside the grid, also one whose
\* upper corner lies beyond the grid, replace(p, q, query(p, q)) completes
\* without error and leaves every cell unchanged.
C10_ReplaceQueryRoundTrip ==
    ( /\ Returned("replace_query") /\ Ordered(last.p, last.q)
      /\ InGrid(last.p, last.preGrid.shape) )
    => /\ last.err = "none"
       /\ Grid = last.preGrid

LexLeq(x, y) ==
    x = y \/ \E i \in DOMAIN x : x[i] < y[i] /\ \A j \in 1..(i - 1) : x[j] = y[j]

\* the j-th kept axis, in ascending order, of an axis list
KeptAxis(axes, j) ==
    CHOOSE a \in {axes[i] : i \in DOMAIN axes} :
       Cardinality({b \in {axes[i] : i \in DOMAIN axes} : b < a}) = j - 1

\* C6: ProjectMD.projection(grid) has shape grid.shape restricted to the kept
\* axes in ascending order; an output cell is AIR iff every source cell on its
\* collapsed line is AIR, otherwise it is the first non-AIR value of the line
\* in ascending flattened order.
C6_Projection ==
    ( /\ Returned("projection")
      /\ \A i \in DOMAIN last.p : last.p[i] < Len(last.preGrid.shape) )
    => LET g    == last.preGrid
           m    == Cardinality({last.p[i] : i \in DOMAIN last.p})
           kept == [j \in 1..m |-> KeptAxis(last.p, j)]
       IN  /\ last.err = "none"
           /\ last.out.shape = [j \in 1..m |-> g.shape[kept[j] + 1]]
           /\ DOMAIN last.out.cells = Idx(last.out.shape)
           /\ \A idx \in DOMAIN last.out.cells :
                 LET line  == {x \in DOMAIN g.cells : \A j \in 1..m : x[kept[j] + 1] = idx[j]}
                     solid == {x \in line : g.cells[x] # AIR}
                 IN  /\ (last.out.cells[idx] = AIR) <=> (solid = {})
                     /\ solid # {} =>
                          \E x \in solid :
                             /\ last.out.cells[idx] = g.cells[x]
                             /\ \A y \in solid : LexLeq(x, y)

\* the 2x2x2 grid with one WALL at storage index (1,0,0), projected onto (1,2)
C6_Witness ==
    /\ Returned("projection") /\ last.err = "none"
    /\ last.p = <<1, 2>>
    /\ last.preGrid.shape = <<2, 2, 2>>
    /\ \A x \in DOMAIN last.preGrid.cells :
          last.preGrid.cells[x] = IF x = <<1, 0, 0>> THEN WALL ELSE AIR
    /\ last.out.shape = <<2, 2>>
    /\ \A idx \in DOMAIN last.out.cells :
          last.out.cells[idx] = IF idx = <<0, 0>> THEN WALL ELSE AIR

\* C11: load(save(g)) has the shape, the gmax and every cell value of g, and
\* save leaves g as it was.
C11_SaveLoadRoundTrip ==
    /\ Returned("load") =>
          /\ last.err = "none"
          /\ last.out.shape = Grid.shape
          /\ DOMAIN last.out.cells = DOMAIN Grid.cells
          /\ \A x \in DOMAIN Grid.cells : last.out.cells[x] = Grid.cells[x]
          /\ last.new_world.grid_max = gmax(world)
          /\ last.new_world.dimension = world.dimension
    /\ Returned("save") =>
          /\ world = last.pre /\ Grid = last.preGrid
          /\ file.shape = Grid.shape

\* a 2x2 grid whose only solid cell is WALL at (0,1), saved and loaded back
C11_Witness ==
    /\ Returned("load") /\ last.err = "none"
    /\ Grid.shape = <<2, 2>>
    /\ \A x \in DOMAIN Grid.cells : Grid.cells[x] = IF x = <<0, 1>> THEN WALL ELSE AIR
    /\ file.data = <<AIR, WALL, AIR, AIR>>
    /\ last.out.cells[<<0, 1>>] = WALL

\* C12: constructing a grid from a shape S with every extent >= 1 gives a
\* grid with shape S, dimension len(S), gmax S - 1 on every axis, all cells AIR.
C12_ConstructValid ==
    ( /\ Returned("construct")
      /\ \A i \in DOMAIN last.new_shape : last.new_shape[i] >= 1 )
    => /\ last.err = "none"
       /\ last.out.shape = last.new_shape
       /\ last.new_world.dimension = Len(last.new_shape)
       /\ gmax(last.new_world) = [i \in DOMAIN last.new_shape |-> last.new_shape[i] - 1]
       /\ DOMAIN last.out.cells = Idx(last.new_shape)
       /\ \A x \in DOMAIN last.out.cells : last.out.cells[x] = AIR

\* a world of shape (1,2) has been constructed
C12_Witness ==
    /\ Returned("construct") /\ last.err = "none"
    /\ last.new_shape = <<1, 2>>
    /\ last.new_world.grid_max = <<0, 1>>
    /\ last.out.cells = [x \in {<<0, 0>>, <<0, 1>>} |-> AIR]

\* C13: constructing a grid from a shape with a zero or negative extent fails
\* with ValueError and gives no grid; the shape is not clamped.
C13_ConstructInvalid ==
    ( /\ Returned("construct")
      /\ \E i \in DOMAIN last.new_shape : last.new_shape[i] <= 0 )
    => /\ last.err = "ValueError"
       /\ last.new_world = NoWorld
       /\ last.out = NoArray
       /\ world = last.pre /\ heap = [b \in BufIds |-> IF b = world.grid THEN last.preGrid ELSE heap[b]]

\* construction from the shapes (2,0) and (-1,) has been refused
C13_Witness ==
    /\ Returned("construct") /\ last.err = "ValueError"
    /\ last.new_shape \in {<<2, 0>>, <<-1>>}

\* C14: Project2D.projection returns a grid with exactly two dimensions: for
\* two distinct axes the 2-axis projection; for twice the same axis a grid of
\* shape (n, 1), n the extent of that axis, whose cell (i, 0) is cell i of
\* the 1-axis projection.
C14_Project2DTwoDimensions ==
    ( /\ Returned("projection2d")
      /\ \A i \in DOMAIN last.p : last.p[i] < Len(last.preGrid.shape) )
    => LET g   == last.preGrid
           ax0 == last.p[1]
           ax1 == last.p[2]
       IN  /\ last.err = "none"
           /\ Len(last.out.shape) = 2
           /\ DOMAIN last.out.cells = Idx(last.out.shape)
           /\ ax0 # ax1 => last.out = projection(ProjectMD(<<ax0, ax1>>), g).out
           /\ ax0 = ax1 =>
                 LET one == projection(ProjectMD(<<ax0>>), g).out
                     n   == g.shape[ax0 + 1]
                 IN  /\ last.out.shape = <<n, 1>>
                     /\ \A i \in 0..(n - 1) : last.out.cells[<<i, 0>>] = one.cells[<<i>>]

\* a 2x2 grid with WALL at (1,0) viewed along axis 0 twice: shape (2,1),
\* WALL at (1,0)
C14_Witness ==
    /\ Returned("projection2d") /\ last.err = "none"
    /\ last.p = <<0, 0>>
    /\ last.preGrid.shape = <<2, 2>>
    /\ last.preGrid.cells[<<1, 0>>] = WALL
    /\ last.out.shape = <<2, 1>>
    /\ last.out.cells[<<1, 0>>] = WALL /\ last.out.cells[<<0, 0>>] = AIR

\* C15: a projection depends only on the set of requested axes: ProjectMD
\* built from a permuted list, or from a list with repeated entries, returns
\* what ProjectMD built from the sorted de-duplicated list returns, and
\* Project2D(a, b) and Project2D(b, a) return the same grid.
C15_AxisSetOnly ==
    Returned("projection") =>
       LET g      == last.preGrid
           m      == Cardinality({last.p[i] : i \in DOMAIN last.p})
           sorted == [j \in 1..m |-> KeptAxis(last.p, j)]
           ref    == projection(ProjectMD(sorted), g)
       IN  /\ last.err = ref.err
           /\ last.out = ref.out
           /\ Len(last.p) = 2 =>
                 projection2D(Project2D(last.p[1], last.p[2]), g)
                   = projection2D(Project2D(last.p[2], last.p[1]), g)

\* the 1x2 grid with WALL at (0,1) projected onto the axis list (1, 0)
C15_Witness ==
    /\ Returned("projection") /\ last.err = "none"
    /\ last.p = <<1, 0>>
    /\ last.preGrid.shape = <<1, 2>>
    /\ last.preGrid.cells[<<0, 1>>] = WALL /\ last.preGrid.cells[<<0, 0>>] = AIR
    /\ last.out.shape = <<1, 2>>
    /\ last.out.cells[<<0, 1>>] = WALL /\ last.out.cells[<<0, 0>>] = AIR

RegionOps == {"fill", "query", "replace"}

\* C16: fill, query and replace called with a corner whose number of
\* coordinates differs from the grid's dimension fail with AssertionError (the
\* dimension-mismatch error) and leave the grid unchanged.
C16_DimensionMismatch ==
    ( /\ pc = "returned" /\ last.op \in RegionOps
      /\ (Len(last.p) # last.pre.dimension \/ Len(last.q) # last.pre.dimension) )
    => /\ last.err = "AssertionError"
       /\ world = last.pre
       /\ Grid = last.preGrid

\* fill has refused a one-coordinate lower corner on an all-AIR 2x2 grid
C16_Witness ==
    /\ pc = "returned" /\ last.op = "fill" /\ last.m = WALL
    /\ last.err = "AssertionError"
    /\ last.p = <<0>> /\ last.q = <<0, 0>>
    /\ last.preGrid = Zeros(<<2, 2>>)
    /\ Grid = Zeros(<<2, 2>>)

\* C17: fill, query and replace called with corners of the right length but
\* with p > q on at least one axis fail with AssertionError (the invalid-region
\* error) and leave the grid unchanged: the corners are not swapped or fixed.
C17_InvalidRegion ==
    ( /\ pc = "returned" /\ last.op \in RegionOps
      /\ Len(last.p) = last.pre.dimension /\ Len(last.q) = last.pre.dimension
      /\ \E i \in DOMAIN last.p : last.p[i] > last.q[i] )
    => /\ last.err = "AssertionError"
       /\ world = last.pre
       /\ Grid = last.preGrid

\* replace has refused the corners (0,1), (0,0) on an all-AIR 2x2 grid
C17_Witness ==
    /\ pc = "returned" /\ last.op = "replace"
    /\ last.err = "AssertionError"
    /\ last.p = <<0, 1>> /\ last.q = <<0, 0>>
    /\ last.block.cells = [x \in {<<0, 0>>} |-> WALL]
    /\ last.preGrid = Zeros(<<2, 2>>)
    /\ Grid = Zeros(<<2, 2>>)

\* C18: replace(p, q, block) with a block whose shape differs on some axis
\* from the shape of the region [p, min(q, gmax)] fails and leaves the grid
\* unchanged; it writes only when the shapes are equal.
C18_ShapeMismatch ==
    ( /\ Returned("replace")
      /\ Ordered(last.p, last.q) /\ InGrid(last.p, last.preGrid.shape)
      /\ last.block.shape # BoxShape(last.p, ClipCorner(last.q, last.preGrid.shape)) )
    => /\ last.err # "none"
       /\ Grid = last.preGrid

\* C19: building a projector never fails on the number of axes; projection
\* fails with AssertionError (the axis-count error) whenever the de-duplicated
\* axes are more than the grid has dimensions, and the same projector succeeds
\* on a grid that has all of its axes.
C19_AxisCount ==
    Returned("projection") =>
       LET self   == ProjectMD(last.p)
           m      == Cardinality({last.p[i] : i \in DOMAIN last.p})
           enough == Zeros([i \in 1..(SeqMax(last.p) + 1) |-> 2])
       IN  /\ Len(self.axes) = m
           /\ m > Len(last.preGrid.shape) => last.err = "AssertionError" /\ last.out = NoArray
           /\ projection(self, enough).err = "none"

\* the projector on axes (0,1,2) has been refused by a 2x2 grid
C19_Witness ==
    /\ Returned("projection") /\ last.err = "AssertionError"
    /\ last.p = <<0, 1, 2>>
    /\ last.preGrid.shape = <<2, 2>>
    /\ projection(ProjectMD(last.p), Zeros(<<2, 2, 2>>)).err = "none"

\* the signals of that name emitted during the last call
Emitted(signal) == {i \in DOMAIN last.signals : last.signals[i].signal = signal}

\* C20: a resize or model_update request that replaces the grid emits
\* model_shape_changed exactly once, with the new grid installed; a request
\* that does not replace the grid emits none; select_material (set_material)
\* and pick_position never emit it.
C20_ShapeChangedSignal ==
    /\ ( pc = "returned" /\ last.op \in {"qt_resize", "model_update"} ) =>
          IF world # last.pre
          THEN /\ Cardinality(Emitted("model_shape_changed")) = 1
               /\ \A i \in Emitted("model_shape_changed") :
                     last.signals[i].world = world /\ last.signals[i].grid = Grid
          ELSE Emitted("model_shape_changed") = {}
    /\ ( pc = "returned" /\ last.op \in {"select_material", "pick_position"} ) =>
          Emitted("model_shape_changed") = {}

\* model_update((2,2)) on a world of shape (1,2) has installed a 2x2 grid and
\* emitted model_shape_changed once
C20_Witness ==
    /\ Returned("model_update") /\ last.err = "none"
    /\ last.preGrid.shape = <<1, 2>> /\ last.new_shape = <<2, 2>>
    /\ Grid.shape = <<2, 2>>
    /\ Len(last.signals) = 1
    /\ last.signals[1].signal = "model_shape_changed"
    /\ last.signals[1].grid.shape = <<2, 2>>

\* C21: pick_position(pos) with pos a cell of the world paints exactly that
\* cell with the current material and then emits exactly one model_changed,
\* the cell already written; if the paint fails (wrong coordinate count) no
\* model_changed is emitted and the grid is unchanged.
C21_PickPosition ==
    Returned("pick_position") =>
       /\ world = last.pre
       /\ InGrid(last.p, last.preGrid.shape) =>
             /\ last.err = "none"
             /\ Grid.shape = last.preGrid.shape
             /\ \A x \in DOMAIN Grid.cells :
                   Grid.cells[x] = IF x = last.p THEN last.preMaterial ELSE last.preGrid.cells[x]
             /\ Len(last.signals) = 1
             /\ last.signals[1] = Emit("model_changed", heap, world)
       /\ last.err # "none" =>
             /\ Emitted("model_changed") = {}
             /\ Grid = last.preGrid
       /\ Len(last.p) # last.pre.dimension => last.err # "none"

\* cell (1,0) of an all-AIR 2x2 grid has been picked with WALL selected
C21_Witness ==
    /\ Returned("pick_position") /\ last.err = "none"
    /\ last.p = <<1, 0>> /\ last.preMaterial = WALL
    /\ last.preGrid = Zeros(<<2, 2>>)
    /\ Grid.cells[<<1, 0>>] = WALL
    /\ Len(last.signals) = 1 /\ last.signals[1].grid.cells[<<1, 0>>] = WALL

\* C22: the current material is AIR until set_material is called; set_material
\* changes the current material to its argument and no cell, shape or owned
\* grid; no other operation changes the current material; and build(p, q)
\* has the effect of fill(p, q, current material) on the grid.
C22_BuildUsesMaterial ==
    /\ current_material = AIR
    /\ [][ /\ (pc = "idle" /\ pc' = "returned" /\ last'.op = "set_material") =>
                /\ current_material' = last'.m
                /\ world' = world
                /\ heap' = heap
           /\ ~(pc = "idle" /\ pc' = "returned" /\ last'.op = "set_material") =>
                current_material' = current_material
           /\ (pc = "idle" /\ pc' = "returned" /\ last'.op = "build") =>
                LET r == fill(heap, world, last'.p, last'.q, current_material)
                IN  /\ last'.err = r.err
                    /\ last'.m = current_material
                    /\ world' = world
                    /\ heap'[world'.grid] = r.heap[world.grid] ]_vars

\* WALL was selected and a build has turned an AIR cell into WALL
C22_Witness ==
    /\ Returned("build") /\ last.err = "none"
    /\ last.preMaterial = WALL /\ current_material = WALL
    /\ \E x \in DOMAIN Grid.cells : Grid.cells[x] = WALL /\ last.preGrid.cells[x] = AIR

\* C23: a resize request that fails with any error leaves the manager owning
\* the same grid, with the same shape and cell values, leaves the current
\* material unchanged and emits no model_shape_changed.
C23_FailedResize ==
    ( /\ Returned("qt_resize") \/ Returned("model_update")
      /\ last.err # "none" )
    => /\ world = last.pre
       /\ Grid = last.preGrid
       /\ current_material = last.preMaterial
       /\ Emitted("model_shape_changed") = {}
       /\ ~last.ret

\* a request failed after its new world had been constructed (the shape asked
\* for is valid), on a grid holding WALL with WALL selected
C23_Witness ==
    /\ Returned("qt_resize") \/ Returned("model_update")
    /\ last.err # "none"
    /\ \E x \in DOMAIN last.preGrid.cells : last.preGrid.cells[x] = WALL
    /\ last.preMaterial = WALL
    /\ \A i \in DOMAIN last.new_shape : last.new_shape[i] >= 1
    /\ WorldModelND(heap, Fresh(heap), last.new_shape).err = "none"

\* the heap as it was when the last call was made, as far as the world's
\* own grid goes
PreHeap == [b \in BufIds |-> IF b = last.pre.grid THEN last.preGrid ELSE NoArray]

\* C24: point(p, m) is fill(p, p, m): from the same grid both end with the
\* same outcome and the same grid; for p a cell of the grid that is the
\* grid with exactly cell p set to m, and for p with the wrong number of
\* coordinates both fail with the same error and leave the grid unchanged.
C24_PointIsFill ==
    Returned("point") =>
       LET f == fill(PreHeap, last.pre, last.p, last.p, last.m)
       IN  /\ last.err = f.err
           /\ world = last.pre
           /\ Grid = f.heap[last.pre.grid]
           /\ InGrid(last.p, last.preGrid.shape) =>
                 /\ last.err = "none"
                 /\ Grid.shape = last.preGrid.shape
                 /\ \A x \in DOMAIN Grid.cells :
                       Grid.cells[x] = IF x = last.p THEN last.m ELSE last.preGrid.cells[x]
           /\ Len(last.p) # last.pre.dimension =>
                 /\ last.err = "AssertionError"
                 /\ Grid = last.preGrid

\* point has set an AIR cell next to another AIR cell to WALL
C24_Witness ==
    /\ Returned("point") /\ last.err = "none" /\ last.m = WALL
    /\ InGrid(last.p, last.preGrid.shape)
    /\ last.preGrid.cells[last.p] = AIR /\ Grid.cells[last.p] = WALL
    /\ \E x \in DOMAIN Grid.cells : x # last.p /\ Grid.cells[x] = AIR

\* C25: a projection call leaves its source array, the manager's world and
\* the world's grid as they were, and every step that changes the owned
\* grid (its identity, its shape or a cell) is a build or a resize.
C25_ProjectionReadOnly ==
    [][ /\ (pc = "idle" /\ pc' = "returned" /\ last'.op \in {"projection", "projection2d"}) =>
             /\ last'.block = heap[world.grid]
             /\ world' = world
             /\ heap'[world'.grid] = heap[world.grid]
        /\ (world' # world \/ heap'[world'.grid] # heap[world.grid]) =>
             /\ pc = "idle" /\ pc' = "returned"
             /\ last'.op \in {"build", "resize"} ]_vars

\* a grid that a build has put WALL into was projected onto fewer axes
C25_Witness ==
    /\ Returned("projection") /\ last.err = "none"
    /\ Len(last.out.shape) < Len(Grid.shape)
    /\ \E x \in DOMAIN Grid.cells : Grid.cells[x] = WALL
    /\ \E x \in DOMAIN Grid.cells : Grid.cells[x] = AIR
    /\ last.block = Grid

\* C26: a shape-change request (resize or model_update) for a valid shape
\* whose number of extents differs from the world's dimension completes
\* without error, returns true, installs a grid of the requested shape and
\* dimension, and emits model_shape_changed.
C26_DimensionChange ==
    ( /\ Returned("qt_resize") \/ Returned("model_update")
      /\ Len(last.new_shape) # last.pre.dimension
      /\ \A i \in DOMAIN last.new_shape : last.new_shape[i] >= 1 )
    => /\ last.err = "none"
       /\ last.ret
       /\ Grid.shape = last.new_shape
       /\ world.dimension = Len(last.new_shape)
       /\ Cardinality(Emitted("model_shape_changed")) = 1

\* the heap as the slot of an emitted signal sees it, as far as the world's
\* own grid goes
SignalHeap(sig) == [b \in BufIds |-> IF b = sig.world.grid THEN sig.grid ELSE NoArray]

\* C27: in a 2-dimensional world, after pick_position((x, y)) of a cell with
\* WALL the current material, the grid redraw hands to the display on the
\* model_changed signal has WALL at cell (x, y) and is equal at every other
\* cell to the grid redraw handed to it before the pick.
C27_PickShownAtCell ==
    ( /\ Returned("pick_position")
      /\ last.pre.dimension = 2 /\ Len(last.p) = 2
      /\ last.preMaterial = WALL
      /\ InGrid(last.p, last.preGrid.shape) )
    => /\ last.err = "none"
       /\ Len(last.signals) = 1
       /\ LET before == redraw(PreHeap, last.pre)
              after  == redraw(SignalHeap(last.signals[1]), last.signals[1].world)
          IN  /\ before.err = "none" /\ after.err = "none"
              /\ after.out.shape = before.out.shape
              /\ DOMAIN after.out.cells = DOMAIN before.out.cells
              /\ last.p \in DOMAIN after.out.cells
              /\ \A x \in DOMAIN after.out.cells :
                    after.out.cells[x] = IF x = last.p THEN WALL ELSE before.out.cells[x]

\* cell (0,1) of a 1x2 world holding AIR was picked with WALL selected, and
\* the display is handed a 1x2 grid with WALL at (0,1)
C27_Witness ==
    /\ Returned("pick_position") /\ last.err = "none"
    /\ last.preGrid = Zeros(<<1, 2>>) /\ last.p = <<0, 1>>
    /\ last.preMaterial = WALL
    /\ Len(last.signals) = 1
    /\ redraw(SignalHeap(last.signals[1]), last.signals[1].world).out
          = [shape |-> <<1, 2>>, cells |-> [x \in Idx(<<1, 2>>) |-> IF x = <<0, 1>> THEN WALL ELSE AIR]]

\* C28: in every state reached by resize, set_material and build calls,
\* failed ones included, the manager owns exactly one grid, every extent of
\* its shape is at least 1, its dimension is the length of its shape, and
\* manager.size = world.gmax = world.shape - 1 on every axis.
C28_ManagerInvariant ==
    /\ world.grid \in BufIds
    /\ {b \in BufIds : heap[b] # NoArray} = {world.grid}
    /\ Grid.shape # <<>>
    /\ DOMAIN Grid.cells = Idx(Grid.shape)
    /\ \A i \in DOMAIN Grid.shape : Grid.shape[i] >= 1
    /\ world.dimension = Len(shape(heap, world))
    /\ size(world) = gmax(world)
    /\ gmax(world) = [i \in DOMAIN shape(heap, world) |-> shape(heap, world)[i] - 1]

\* a resize has replaced a grid holding WALL by one of another shape
C28_Witness ==
    /\ Returned("resize") /\ last.ret
    /\ Grid.shape # last.preGrid.shape
    /\ world.grid # last.pre.grid
    /\ \E x \in DOMAIN last.preGrid.cells : last.preGrid.cells[x] = WALL

\* C29: projecting a grid onto the set of all of its axes gives a grid of
\* the same shape with the same value in every cell.
C29_ProjectAllAxes ==
    ( /\ Returned("projection")
      /\ {last.p[i] : i \in DOMAIN last.p} = 0..(Len(last.preGrid.shape) - 1) )
    => /\ last.err = "none"
       /\ last.out.shape = last.preGrid.shape
       /\ DOMAIN last.out.cells = DOMAIN last.preGrid.cells
       /\ \A x \in DOMAIN last.preGrid.cells : last.out.cells[x] = last.preGrid.cells[x]

\* a 3-d grid holding AIR and a material other than WALL was projected onto
\* its axes 0, 1, 2
C29_Witness ==
    /\ Returned("projection") /\ last.err = "none"
    /\ last.p = <<0, 1, 2>> /\ Len(last.preGrid.shape) = 3
    /\ \E x \in DOMAIN last.preGrid.cells : last.preGrid.cells[x] = WALL + 1
    /\ \E x \in DOMAIN last.preGrid.cells : last.preGrid.cells[x] = AIR
    /\ last.out = last.preGrid

\* C30: for a grid of AIR and WALL and axis sets B within A, projecting the
\* grid onto A and the result onto the positions B has within A gives the
\* same grid as projecting the grid onto B directly.
C30_ProjectionComposes ==
    Returned("compose") =>
       /\ last.ret
       /\ last.err = "none"
       /\ last.out.shape = last.block.shape
       /\ DOMAIN last.out.cells = DOMAIN last.block.cells
       /\ \A x \in DOMAIN last.block.cells : last.out.cells[x] = last.block.cells[x]

\* a 3-d grid with two WALL cells in different rows of one collapsed plane,
\* projected onto two axes and then onto one of them
C30_Witness ==
    /\ Returned("compose") /\ last.err = "none" /\ last.ret
    /\ Len(last.preGrid.shape) = 3 /\ Len(last.p) = 2 /\ Len(last.q) = 1
    /\ last.p = <<0, 1>> /\ last.q = <<0>>
    /\ \E x, y \in DOMAIN last.preGrid.cells :
          /\ x[1] = y[1] /\ x[2] # y[2]
          /\ last.preGrid.cells[x] = WALL /\ last.preGrid.cells[y] = WALL
    /\ \E o \in DOMAIN last.out.cells : last.out.cells[o] = WALL
    /\ \E o \in DOMAIN last.out.cells : last.out.cells[o] = AIR

====
